---------------------------- MODULE Spec2Model ----------------------------
(***************************************************************************)
(* Control flow of main() in electricmind_scripts_python/main_script.py.   *)
(*                                                                         *)
(* The model starts where the try statement is entered (line 37), with the *)
(* PlaywrightManager already constructed, and follows the function one     *)
(* statement at a time: pc names the line that runs next ("L40" is line    *)
(* 40).  Every call the function makes can return or raise an Exception:   *)
(* print, manager.open_url, manager.validate_element_from_data and         *)
(* manager.teardown.  os.path.join and os.path.exists do not raise for a   *)
(* string path.                                                            *)
(*                                                                         *)
(* Python's try / except Exception / finally is modelled as the language   *)
(* defines it: an exception raised in the try body transfers to the        *)
(* handler (line 65); one raised in the handler runs the finally block and *)
(* is then re-raised; one raised in the finally block leaves main() at     *)
(* once.  Reading an unbound local raises UnboundLocalError.               *)
(*                                                                         *)
(* PlaywrightManager (common/lib) is not among the sources; what its       *)
(* methods do to the browser session and how the validator aggregates the  *)
(* per-element results is taken from the written specification.            *)
(***************************************************************************)
EXTENDS Integers, Sequences, FiniteSets, TLC

\* Largest number of descriptors in the locator file.
MaxElems == 3

VARIABLES
    pc,                 \* next line of main() to run, or "exited" / "raised"
    exit_code,          \* the local exit_code: << >> unbound, else <<value>>
    validation_result,  \* the local validation_result: << >> unbound, else <<b>>
    pending,            \* TRUE while an exception raised in the handler waits
                        \* for the finally block to finish
    raisedAt,           \* the lines at which an exception was raised, in order
    openCalls,          \* invocations of manager.open_url
    openReturned,       \* open_url has returned a page
    existsChecks,       \* evaluations of os.path.exists(locator_file)
    validateCalls,      \* invocations of manager.validate_element_from_data
    teardownCalls,      \* invocations of manager.teardown
    teardownReturned,   \* teardown has returned normally
    liveSessions,       \* browser sessions opened and not yet released
    fileExists,         \* environment: Locators/locator.yaml exists
    pageHas,            \* environment: per descriptor, is the element on the page
    perElement,         \* validator: found flags recorded so far
    overall,            \* validator: running aggregate
    visited             \* history: orchestrator states visited, in order

vars == << pc, exit_code, validation_result, pending, raisedAt, openCalls,
           openReturned, existsChecks, validateCalls, teardownCalls,
           teardownReturned, liveSessions, fileExists, pageHas, perElement,
           overall, visited >>

locals == << exit_code, validation_result >>
env == << fileExists, pageHas >>
calls == << openCalls, openReturned, existsChecks, validateCalls,
            teardownCalls, teardownReturned, liveSessions >>
val == << perElement, overall >>

\* All sequences of booleans of length at most n.
BoolSeqs(n) == UNION { [1..k -> BOOLEAN] : k \in 0..n }

Last(s) == s[Len(s)]

----------------------------------------------------------------------------
\* Exit codes assigned by main() on lines 57, 60 and 67.
PassExitCode == 0
FailExitCode == 1
\* Faulty variant: the handler reports success.
ErrorExitCodeAsPass == PassExitCode
ErrorExitCode == 1

\* Lines of the try body that are print statements, and the line after each.
TryPrints == { "L39", "L43", "L52", "L53", "L56", "L59", "L62" }

\* Faulty variant: the locator file is examined before the browser is opened.
AfterTryPrintFileFirst(l) ==
    CASE l = "L39" -> "L46"
      [] l = "L43" -> "L46"
      [] l = "L52" -> "L53"
      [] l = "L53" -> "L55"
      [] l = "L56" -> "L57"
      [] l = "L59" -> "L60"
      [] l = "L62" -> "L71"

AfterTryPrint(l) ==
    CASE l = "L39" -> "L40"
      [] l = "L43" -> "L46"
      [] l = "L52" -> "L53"
      [] l = "L53" -> "L55"
      [] l = "L56" -> "L57"
      [] l = "L59" -> "L60"
      [] l = "L62" -> "L71"

\* except Exception as e: where an exception raised in the try body lands.
HandlerEntry == "L65"

\* Faulty variant: after a failure the handler retries the run once.
AfterHandlerRetry == IF openCalls < 2 THEN "L40" ELSE "L71"

\* Where the handler continues after exit_code = 1 (the finally block).
AfterHandler == "L71"

\* The orchestrator state of the written specification that a position of
\* main() belongs to.
Phase(p, td) ==
    IF td > 0 THEN "TornDown"
    ELSE CASE p \in { "L39", "L40" } -> "Init"
           [] p \in { "L43", "L46", "L49", "Vloop" } -> "Opened"
           [] p \in { "L52", "L53", "L55" } -> "Validated"
           [] OTHER -> "Reported"

Visit(v, ph) == IF Last(v) = ph THEN v ELSE Append(v, ph)

\* Every step records the orchestrator state it arrives in.
Track == visited' = Visit(visited, Phase(pc', teardownCalls'))

\* An exception raised by line l inside the try body: control transfers to
\* the except clause.
RaiseInTry(l) ==
    /\ pc' = HandlerEntry
    /\ raisedAt' = Append(raisedAt, l)
    /\ UNCHANGED pending

\* An exception that leaves main(): raised by line l of the finally block or
\* after it.
RaiseOut(l) ==
    /\ pc' = "raised"
    /\ raisedAt' = Append(raisedAt, l)
    /\ pending' = FALSE

\* What the session manager's methods do to the set of live sessions.
SessionsAfterOpen(n) == n + 1
SessionsAfterTeardown(n) == 0

\* The branch of line 55 on the truth of validation_result (BranchInverted
\* is the faulty variant with the test negated).
BranchInverted(r) == IF r THEN "L59" ELSE "L56"
Branch(r) == IF r THEN "L56" ELSE "L59"

Goto(l) == pc' = l /\ UNCHANGED << pending, raisedAt >>

----------------------------------------------------------------------------
Init ==
    /\ pc = "L39"
    /\ exit_code = << >>
    /\ validation_result = << >>
    /\ pending = FALSE
    /\ raisedAt = << >>
    /\ openCalls = 0
    /\ openReturned = FALSE
    /\ existsChecks = 0
    /\ validateCalls = 0
    /\ teardownCalls = 0
    /\ teardownReturned = FALSE
    /\ liveSessions = 0
    /\ fileExists \in BOOLEAN
    /\ pageHas \in BoolSeqs(MaxElems)
    /\ (~fileExists => pageHas = << >>)
    /\ perElement = << >>
    /\ overall = TRUE
    /\ visited = << "Init" >>

\* A print statement of the try body (lines 39, 43, 52, 53, 56, 59, 62).
TryPrint ==
    /\ pc \in TryPrints
    /\ \E ok \in BOOLEAN :
          IF ok THEN Goto(AfterTryPrint(pc)) ELSE RaiseInTry(pc)
    /\ UNCHANGED << locals, env, calls, val >>
    /\ Track

\* Faulty variant of line 40: a failure of open_url is swallowed and the run
\* goes on to step 2.
OpenUrlSwallowed ==
    /\ pc = "L40"
    /\ openCalls' = openCalls + 1
    /\ \E ok \in BOOLEAN :
          IF ok
          THEN /\ Goto("L43")
               /\ openReturned' = TRUE
               /\ liveSessions' = SessionsAfterOpen(liveSessions)
          ELSE /\ pc' = "L43"
               /\ raisedAt' = Append(raisedAt, "L40")
               /\ UNCHANGED << pending, openReturned, liveSessions >>
    /\ UNCHANGED << locals, env, val, existsChecks, validateCalls,
                    teardownCalls, teardownReturned >>
    /\ Track

\* Line 40: page = manager.open_url(settings.URL, settings.BROWSER).
OpenUrl ==
    /\ pc = "L40"
    /\ openCalls' = openCalls + 1
    /\ \E ok \in BOOLEAN :
          IF ok
          THEN /\ Goto("L43")
               /\ openReturned' = TRUE
               /\ liveSessions' = SessionsAfterOpen(liveSessions)
          ELSE /\ RaiseInTry("L40")
               /\ UNCHANGED << openReturned, liveSessions >>
    /\ UNCHANGED << locals, env, val, existsChecks, validateCalls,
                    teardownCalls, teardownReturned >>
    /\ Track

\* Lines 44-47: build the locator path, raise FileNotFoundError if the file
\* does not exist.
CheckLocatorFile ==
    /\ pc = "L46"
    /\ existsChecks' = existsChecks + 1
    /\ IF fileExists THEN Goto("L49") ELSE RaiseInTry("L47")
    /\ UNCHANGED << locals, env, val, openCalls, openReturned, validateCalls,
                    teardownCalls, teardownReturned, liveSessions >>
    /\ Track

\* Line 49, the call: the validator is entered and loads the descriptors, or
\* raises (malformed file, unexpected error).
ValidateCall ==
    /\ pc = "L49"
    /\ validateCalls' = validateCalls + 1
    /\ \E ok \in BOOLEAN :
          IF ok THEN Goto("Vloop") ELSE RaiseInTry("L49")
    /\ perElement' = << >>
    /\ overall' = TRUE
    /\ UNCHANGED << locals, env, openCalls, openReturned, existsChecks,
                    teardownCalls, teardownReturned, liveSessions >>
    /\ Track

\* Line 49, inside the validator: look up the next descriptor's element and
\* record whether it was found; every descriptor is checked.
ValidateElement ==
    /\ pc = "Vloop"
    /\ Len(perElement) < Len(pageHas)
    /\ \E ok \in BOOLEAN :
          IF ok
          THEN /\ Goto("Vloop")
               /\ perElement' = Append(perElement, pageHas[Len(perElement) + 1])
               /\ overall' = (overall /\ pageHas[Len(perElement) + 1])
          ELSE /\ RaiseInTry("L49")
               /\ UNCHANGED val
    /\ UNCHANGED << locals, env, calls >>
    /\ Track

\* Line 49, the return: validation_result is bound to the aggregate.
ValidateReturn ==
    /\ pc = "Vloop"
    /\ Len(perElement) = Len(pageHas)
    /\ validation_result' = << overall >>
    /\ Goto("L52")
    /\ UNCHANGED << exit_code, env, calls, val >>
    /\ Track

\* Line 55: if validation_result.
TestResult ==
    /\ pc = "L55"
    /\ IF validation_result = << >>
       THEN RaiseInTry("L55")
       ELSE Goto(Branch(validation_result[1]))
    /\ UNCHANGED << locals, env, calls, val >>
    /\ Track

\* Line 57: exit_code = 0.
AssignPass ==
    /\ pc = "L57"
    /\ exit_code' = << PassExitCode >>
    /\ Goto("L62")
    /\ UNCHANGED << validation_result, env, calls, val >>
    /\ Track

\* Line 60: exit_code = 1.
AssignFail ==
    /\ pc = "L60"
    /\ exit_code' = << FailExitCode >>
    /\ Goto("L62")
    /\ UNCHANGED << validation_result, env, calls, val >>
    /\ Track

\* Lines 65-66: the handler's two print statements.  An exception raised
\* here is not caught: the finally block runs and the exception is re-raised.
HandlerPrint ==
    /\ pc \in { "L65", "L66" }
    /\ \E ok \in BOOLEAN :
          IF ok
          THEN Goto(IF pc = "L65" THEN "L66" ELSE "L67")
          ELSE /\ pc' = "L71"
               /\ pending' = TRUE
               /\ raisedAt' = Append(raisedAt, pc)
    /\ UNCHANGED << locals, env, calls, val >>
    /\ Track

\* Faulty variant of line 67: the handler leaves exit_code alone.
AssignErrorSkipped ==
    /\ pc = "L67"
    /\ Goto(AfterHandler)
    /\ UNCHANGED << locals, env, calls, val >>
    /\ Track

\* Line 67: exit_code = 1, then on to the finally block.
AssignError ==
    /\ pc = "L67"
    /\ exit_code' = << ErrorExitCode >>
    /\ Goto(AfterHandler)
    /\ UNCHANGED << validation_result, env, calls, val >>
    /\ Track

\* Line 71: the print statement that opens the finally block.
CleanupPrint ==
    /\ pc = "L71"
    /\ \E ok \in BOOLEAN :
          IF ok
          THEN pc' = "L72" /\ UNCHANGED << pending, raisedAt >>
          ELSE RaiseOut("L71")
    /\ UNCHANGED << locals, env, calls, val >>
    /\ Track

\* Line 72: manager.teardown().  When it returns, a pending exception from
\* the handler is re-raised; otherwise control leaves the try statement.
\* When it raises, the session may or may not have been released.
Teardown ==
    /\ pc = "L72"
    /\ teardownCalls' = teardownCalls + 1
    /\ \E ok \in BOOLEAN :
          IF ok
          THEN /\ pc' = IF pending THEN "raised" ELSE "L74"
               /\ UNCHANGED << pending, raisedAt >>
               /\ teardownReturned' = TRUE
               /\ liveSessions' = SessionsAfterTeardown(liveSessions)
          ELSE /\ RaiseOut("L72")
               /\ UNCHANGED teardownReturned
               /\ liveSessions' \in
                     { liveSessions, SessionsAfterTeardown(liveSessions) }
    /\ UNCHANGED << locals, env, val, openCalls, openReturned, existsChecks,
                    validateCalls >>
    /\ Track

\* Line 74: the closing print statement.
FinalPrint ==
    /\ pc = "L74"
    /\ \E ok \in BOOLEAN :
          IF ok THEN Goto("L75") ELSE RaiseOut("L74")
    /\ UNCHANGED << locals, env, calls, val >>
    /\ Track

\* Line 75: sys.exit(exit_code).
SysExit ==
    /\ pc = "L75"
    /\ IF exit_code = << >> THEN RaiseOut("L75") ELSE Goto("exited")
    /\ UNCHANGED << locals, env, calls, val >>
    /\ Track

Next ==
    \/ TryPrint
    \/ OpenUrl
    \/ CheckLocatorFile
    \/ ValidateCall
    \/ ValidateElement
    \/ ValidateReturn
    \/ TestResult
    \/ AssignPass
    \/ AssignFail
    \/ HandlerPrint
    \/ AssignError
    \/ CleanupPrint
    \/ Teardown
    \/ FinalPrint
    \/ SysExit

Spec == Init /\ [][Next]_vars

\* main() has ended: by sys.exit, or by an exception that left it.
Terminated == pc \in { "exited", "raised" }

----------------------------------------------------------------------------
\* Auxiliary predicates over a run.

Range(s) == { s[i] : i \in 1..Len(s) }

\* main() has chosen the process exit code: control is at sys.exit or past it.
ExitChosen == pc \in { "L75", "exited" }

\* Positions of main() after the try body.
PastTryBody ==
    { "L65", "L66", "L67", "L71", "L72", "L74", "L75", "exited", "raised" }

\* The lines on which results are reported: step 3 and the handler's message.
ReportLines == { "L52", "L53", "L56", "L59", "L62", "L65", "L66" }

\* Every per-element found flag recorded by the validator is true.
AllFound == \A i \in 1..Len(perElement) : perElement[i]

\* The run went through open, the locator-file check, validation with a true
\* result and step 3 without any exception.
CleanPass ==
    /\ openReturned
    /\ existsChecks = 1 /\ fileExists
    /\ validation_result = << TRUE >>
    /\ raisedAt = << >>

Rank(ph) ==
    CASE ph = "Init" -> 0
      [] ph = "Opened" -> 1
      [] ph = "Validated" -> 2
      [] ph = "Reported" -> 3
      [] ph = "TornDown" -> 4

----------------------------------------------------------------------------
\* C1: when main() has ended, by sys.exit or by an exception, teardown has
\* been invoked exactly once.
C1_TeardownExactlyOnce == Terminated => teardownCalls = 1

\* C2: the exit code main() hands to sys.exit is 0 exactly when open_url
\* returned, the locator file exists, validation returned true and nothing
\* raised; otherwise it is 1.  An exception raised in the try body is caught:
\* control is past the try body, and once the handler has finished the exit
\* code is 1.
C2_ExitCode ==
    /\ ExitChosen =>
          /\ exit_code \in { << 0 >>, << 1 >> }
          /\ (exit_code = << 0 >>) <=> CleanPass
    /\ raisedAt # << >> =>
          /\ pc \in PastTryBody
          /\ (pc \in { "L71", "L72", "L74", "L75", "exited" } /\ ~pending)
                => exit_code = << 1 >>
    /\ (ExitChosen /\ validation_result = << FALSE >>) => exit_code = << 1 >>

\* C2 witness: validation returned true, the closing print of step 3 raised,
\* and the run exits with code 1.
C2_Witness ==
    /\ pc = "exited"
    /\ validation_result = << TRUE >>
    /\ raisedAt = << "L62" >>
    /\ exit_code = << 1 >>

C4_MissingLocatorFile ==
    (Terminated /\ "L47" \in Range(raisedAt)) =>
        /\ validateCalls = 0
        /\ openCalls = 1
        /\ teardownCalls = 1
        /\ (pc = "exited" => exit_code = << 1 >>)

\* C5: a run in which a reporting print raised has invoked teardown by the
\* time it ends.
C5_TeardownAfterReportRaised ==
    (Terminated /\ Range(raisedAt) \cap ReportLines # { }) =>
        teardownCalls >= 1

\* C6: the orchestrator states are visited in the order Init, Opened,
\* Validated, Reported, TornDown, none twice, and a run that has ended is in
\* TornDown.
C6_OrderedAndTornDown ==
    /\ \A i, j \in 1..Len(visited) :
          i < j => Rank(visited[i]) < Rank(visited[j])
    /\ Terminated => Last(visited) = "TornDown"

\* C7: open_url and validate_element_from_data are each invoked at most
\* once, and at most one browser session is live.
C7_NoRetry ==
    /\ openCalls <= 1
    /\ validateCalls <= 1
    /\ liveSessions <= 1

\* C7 witness: a run that failed after the validator was invoked has ended
\* with one open and one validation.
C7_Witness ==
    /\ Terminated
    /\ "L49" \in Range(raisedAt)
    /\ openCalls = 1
    /\ validateCalls = 1

C9_ExitCodeBoundAtExit ==
    /\ ExitChosen =>
          /\ exit_code # << >>
          /\ teardownCalls = 1 /\ teardownReturned
    /\ "L72" \in Range(raisedAt) => pc = "raised" /\ ~teardownReturned

\* C9 witness: control is at sys.exit after the handler assigned exit_code.
C9_Witness ==
    /\ pc = "L75"
    /\ raisedAt # << >>
    /\ exit_code = << 1 >>

\* C10: the locator file is examined only after open_url has returned, with
\* its session live; after open_url has raised it is never examined; when the
\* file was found missing, the session opened is still live until teardown
\* is invoked, and released once teardown has returned.
C10_FileCheckAfterOpen ==
    /\ pc = "L46" => openReturned /\ liveSessions = 1
    /\ existsChecks > 0 => openReturned
    /\ "L40" \in Range(raisedAt) => existsChecks = 0
    /\ "L47" \in Range(raisedAt) =>
          /\ openReturned /\ openCalls = 1
          /\ teardownCalls = 0 => liveSessions = 1
          /\ teardownReturned => liveSessions = 0

\* C10 witness: the file was found missing after the page had loaded, and
\* teardown has released the session.
C10_Witness ==
    /\ "L47" \in Range(raisedAt)
    /\ openReturned
    /\ teardownReturned
    /\ liveSessions = 0

=============================================================================
